---- MODULE Spec2Model ----
(***************************************************************************)
(* Model of check_dependencies.py (computex-setup): the dependency checker *)
(* main() with its probes check_platform, check_display, check_command,    *)
(* check_command_version, the installer get_install_command/auto_install   *)
(* and the re-run of main() after a successful install.                    *)
(*                                                                         *)
(* frames[i] holds the local variables of the i-th (nested) invocation of  *)
(* main(); out[i] holds the lines that invocation printed, in order.       *)
(* Every nested call is a tail call ("return main()"), so the value the    *)
(* innermost invocation returns is the value of all of them.               *)
(***************************************************************************)
EXTENDS Integers, Sequences, FiniteSets, TLC

\* ---------------------------------------------------------------- bounds
\* Stand-in for the interpreter's recursion limit: the number of nested
\* main() invocations after which entering main() raises RecursionError.
RecursionLimit == 3

\* ------------------------------------------------------------- vocabulary
Systems == {"Linux", "Darwin"}
DisplayValues == {"", ":0"}
Tools == {"xdotool", "import"}
PackageManagers == {"apt-get", "dnf", "pacman", "yum"}
Commands == Tools \cup PackageManagers
ArgTokens == {"-v", "--install", "--inst", "--help", "--bogus"}
InstallResults == {"zero", "nonzero", "raise"}
None == "None"
NotReturned == -1

VARIABLES
    system,       \* platform.system()
    display,      \* os.environ.get("DISPLAY", "")
    onPath,       \* the commands shutil.which resolves
    argv,         \* sys.argv[1:] as a set of tokens
    installRC,    \* what running the install command does: exit zero, non-zero, or raise
    installAdds,  \* the tools the install command puts on the search path
    pc,           \* position in the innermost main()
    frames,       \* locals of each nested main() invocation
    out,          \* lines printed by each nested main() invocation
    executed,     \* number of install commands executed (subprocess.run in auto_install)
    retval,       \* exit status handed to sys.exit: the value main() returned, or the
                  \* code of the SystemExit parse_args raised; NotReturned before
    parser_out,   \* what parse_args itself wrote (usage on stdout, error on stderr)
    raised,       \* an exception left main() unhandled
    run,          \* 1 for the run, 2 for the comparison run with -v flipped
    first,        \* outcome of run 1, kept for the comparison
    path0         \* the search path at program start

vars == <<system, display, onPath, argv, installRC, installAdds, pc, frames,
          out, executed, retval, parser_out, raised, run, first, path0>>

env == <<system, display, installRC, installAdds, path0>>

\* ---------------------------------------------------------- pure helpers
\* argparse: -v/--verbose and --install are store_true; argparse accepts any
\* unambiguous prefix of a long option, so "--inst" sets args.install too.
ParseVerbose(a) == "-v" \in a
ParseInstall(a) == "--install" \in a \/ "--inst" \in a

\* parse_args (line 172) ends the program itself, by SystemExit, for the
\* arguments the parser handles on its own: -h/--help prints the usage and
\* exits with status 0 as soon as it is met; an argument the parser does not
\* know is reported on stderr after the others are read, with status 2.
ParseExit(a) ==
    IF "--help" \in a THEN 0
    ELSE IF "--bogus" \in a THEN 2
    ELSE NotReturned
ParseOutput(a) ==
    IF "--help" \in a THEN << "usage: check_dependencies.py [-h] [-v] [--install]" >>
    ELSE IF "--bogus" \in a
    THEN << "usage: check_dependencies.py [-h] [-v] [--install]",
            "check_dependencies.py: error: unrecognized arguments: --bogus" >>
    ELSE << >>

\* shutil.which
Which(command, p) == IF command \in p THEN "/usr/bin/" \o command ELSE None

\* print_check: the lines it prints
PrintCheck(name, passed, message, verbose) ==
    IF passed
    THEN IF verbose /\ message # ""
         THEN << "PASS " \o name \o ": " \o message >>
         ELSE << "PASS " \o name >>
    ELSE IF message # ""
         THEN << "FAIL " \o name, "       " \o message >>
         ELSE << "FAIL " \o name >>

\* check_command's message
CommandMessage(command, path, verbose) ==
    IF path = None
    THEN IF command = "xdotool" THEN "Install: sudo apt-get install -y xdotool"
         ELSE IF command = "import" THEN "Install: sudo apt-get install -y imagemagick"
         ELSE "Command not found in PATH"
    ELSE IF verbose THEN "Found at " \o path ELSE ""

\* get_install_command that falls back to apt-get when it detects no manager
get_install_command_fallback(p) ==
    IF Which("dnf", p) # None THEN "sudo dnf install -y xdotool ImageMagick"
    ELSE IF Which("pacman", p) # None THEN "sudo pacman -S xdotool imagemagick"
    ELSE IF Which("yum", p) # None THEN "sudo yum install -y xdotool ImageMagick"
    ELSE "sudo apt-get update && sudo apt-get install -y xdotool imagemagick"

\* get_install_command
get_install_command(p) ==
    IF Which("apt-get", p) # None
    THEN "sudo apt-get update && sudo apt-get install -y xdotool imagemagick"
    ELSE IF Which("dnf", p) # None THEN "sudo dnf install -y xdotool ImageMagick"
    ELSE IF Which("pacman", p) # None THEN "sudo pacman -S xdotool imagemagick"
    ELSE IF Which("yum", p) # None THEN "sudo yum install -y xdotool ImageMagick"
    ELSE None

\* line 229: after a successful install main() is called again unless the
\* literal token "--install" is in sys.argv
RerunAfterInstall(a) == "--install" \notin a

cur == Len(frames)
Say(lines) == [out EXCEPT ![cur] = @ \o lines]
Bind(name, value) == [frames EXCEPT ![cur] = @ @@ (name :> value)]
verbose == ParseVerbose(argv)

\* ------------------------------------------------------------------ Init
Init ==
    /\ system \in Systems
    /\ display \in DisplayValues
    /\ onPath \in SUBSET Commands
    /\ argv \in SUBSET ArgTokens
    /\ installRC \in InstallResults
    /\ installAdds \in SUBSET Tools
    /\ pc = "start"
    /\ frames = << >>
    /\ out = << >>
    /\ executed = 0
    /\ retval = NotReturned
    /\ parser_out = << >>
    /\ raised = FALSE
    /\ run = 1
    /\ first = << >>
    /\ path0 = onPath

\* --------------------------------------------------------------- actions
\* main(), lines 160-177: parse the arguments, print the header, all_passed = True.
\* parse_args leaves main() with SystemExit, before the header and any check,
\* for --help and for an unknown argument.  Entering main() beyond the
\* interpreter's recursion limit raises RecursionError (in parse_args), which
\* nothing catches.
Start ==
    /\ pc = "start"
    /\ IF Len(frames) >= RecursionLimit
       THEN /\ raised' = TRUE
            /\ pc' = "done"
            /\ UNCHANGED <<frames, out, retval, parser_out>>
       ELSE IF ParseExit(argv) # NotReturned
       THEN /\ retval' = ParseExit(argv)
            /\ parser_out' = parser_out \o ParseOutput(argv)
            /\ pc' = "done"
            /\ UNCHANGED <<frames, out, raised>>
       ELSE /\ frames' = Append(frames, [all_passed |-> TRUE])
            /\ out' = Append(out, << "Computex Computer-Use Dependency Check" >>)
            /\ pc' = "platform"
            /\ UNCHANGED <<raised, retval, parser_out>>
    /\ UNCHANGED <<env, onPath, argv, executed, run, first>>

\* check_platform that takes every platform for Linux
check_platform_any(v) ==
    [result |-> TRUE,
     lines  |-> IF v
                THEN PrintCheck("Platform", TRUE, "Running on " \o system \o " (Linux required)", v)
                ELSE PrintCheck("Platform", TRUE, "Not Linux - computer-use requires Linux/X11", FALSE)]

\* check_platform, lines 48-60
check_platform(v) ==
    LET is_linux == system = "Linux"
    IN  [result |-> is_linux,
         lines  |-> IF v
                    THEN PrintCheck("Platform", is_linux,
                                    "Running on " \o system \o " (Linux required)", v)
                    ELSE PrintCheck("Platform", is_linux,
                                    "Not Linux - computer-use requires Linux/X11", FALSE)]

\* check_display that tests whether the hint is empty instead of the value
check_display_msg(v) ==
    LET msg == IF v THEN "DISPLAY=" \o display ELSE ""
        has_display == msg # ""
    IN  [result |-> has_display,
         lines  |-> PrintCheck("DISPLAY variable", has_display, msg, v)]

\* check_display, lines 63-75
check_display(v) ==
    LET has_display == display # ""
        msg == IF ~has_display
               THEN "Set DISPLAY (e.g., export DISPLAY=:0) or use 'computex --headless'"
               ELSE IF v THEN "DISPLAY=" \o display ELSE ""
    IN  [result |-> has_display,
         lines  |-> PrintCheck("DISPLAY variable", has_display, msg, v)]

\* check_command, lines 78-95
check_command(command, v) ==
    LET path == Which(command, onPath)
        available == path # None
    IN  [available |-> available,
         path      |-> path,
         lines     |-> PrintCheck(command, available, CommandMessage(command, path, v), v)]

\* main(), lines 179-188: the platform gate
CheckPlatform ==
    /\ pc = "platform"
    /\ LET r == check_platform(verbose)
       IN  IF ~r.result
           THEN /\ frames' = [frames EXCEPT ![cur].all_passed = FALSE]
                /\ out' = Say(r.lines \o << "Computer-use GUI tools are only supported on Linux/X11.",
                                            "Alternatives:",
                                            "  - Use 'computex --headless' for shell-only mode",
                                            "  - Run in a Linux VM or container" >>)
                /\ retval' = 2
                /\ pc' = "done"
           ELSE /\ out' = Say(r.lines)
                /\ pc' = "display"
                /\ UNCHANGED <<frames, retval>>
    /\ UNCHANGED <<env, parser_out, onPath, argv, executed, raised, run, first>>

\* main(), lines 190-193
CheckDisplay ==
    /\ pc = "display"
    /\ LET r == check_display(verbose)
           f == Bind("has_display", r.result)
       IN  /\ frames' = IF ~r.result THEN [f EXCEPT ![cur].all_passed = FALSE] ELSE f
           /\ out' = Say(r.lines)
    /\ pc' = "xdotool"
    /\ UNCHANGED <<env, parser_out, onPath, argv, executed, retval, raised, run, first>>

\* the tool probe that forgets to clear all_passed when the tool is missing
CheckToolKeepsFlag(command, hasName, pathName, here, versionPc, nextPc) ==
    /\ pc = here
    /\ LET r == check_command(command, ParseVerbose(argv))
       IN  /\ frames' = [frames EXCEPT ![Len(frames)] = @ @@ (hasName :> r.available) @@ (pathName :> r.path)]
           /\ out' = [out EXCEPT ![Len(frames)] = @ \o r.lines]
           /\ pc' = IF ~r.available THEN nextPc
                    ELSE IF ParseVerbose(argv) THEN versionPc ELSE nextPc
    /\ UNCHANGED <<env, parser_out, onPath, argv, executed, retval, raised, run, first>>

\* main(), lines 195-199 and 202-206: probe one tool; the version query
\* follows only when the tool was found and -v was given
CheckTool(command, hasName, pathName, here, versionPc, nextPc) ==
    /\ pc = here
    /\ LET r == check_command(command, verbose)
           f == [frames EXCEPT ![cur] = @ @@ (hasName :> r.available) @@ (pathName :> r.path)]
       IN  /\ frames' = IF ~r.available THEN [f EXCEPT ![cur].all_passed = FALSE] ELSE f
           /\ out' = Say(r.lines)
           /\ pc' = IF ~r.available THEN nextPc
                    ELSE IF verbose THEN versionPc ELSE nextPc
    /\ UNCHANGED <<env, parser_out, onPath, argv, executed, retval, raised, run, first>>

\* check_command_version, lines 98-122: returns at once without a path or
\* without -v; otherwise tries the version flags and prints the first line of
\* the first successful answer, or nothing when every attempt fails, times out
\* or raises.  It returns nothing and assigns nothing.
check_command_version(command, path, v, answered) ==
    IF path = None \/ ~v THEN << >>
    ELSE IF answered THEN << "       Version: " \o command >>
    ELSE << >>

\* the version query that counts an unanswered query as a failed check
VersionToolEscalates(command, pathName, here, nextPc) ==
    /\ pc = here
    /\ \E answered \in BOOLEAN :
          /\ out' = [out EXCEPT ![Len(frames)] = @ \o
                       check_command_version(command, frames[Len(frames)][pathName],
                                             ParseVerbose(argv), answered)]
          /\ frames' = IF answered THEN frames
                       ELSE [frames EXCEPT ![Len(frames)].all_passed = FALSE]
    /\ pc' = nextPc
    /\ UNCHANGED <<env, parser_out, onPath, argv, executed, retval, raised, run, first>>

VersionTool(command, pathName, here, nextPc) ==
    /\ pc = here
    /\ \E answered \in BOOLEAN :
          out' = Say(check_command_version(command, frames[cur][pathName], verbose, answered))
    /\ pc' = nextPc
    /\ UNCHANGED <<env, parser_out, onPath, argv, frames, executed, retval, raised, run, first>>

CheckXdotool == CheckTool("xdotool", "has_xdotool", "xdotool_path", "xdotool", "xdotool_version", "import")
VersionXdotool == VersionTool("xdotool", "xdotool_path", "xdotool_version", "import")
CheckImport == CheckTool("import", "has_import", "import_path", "import", "import_version", "summary")
VersionImport == VersionTool("import", "import_path", "import_version", "summary")

\* the summary that starts the installer whether or not it was asked for
SummaryAlwaysInstalls ==
    /\ pc = "summary"
    /\ IF frames[Len(frames)].all_passed
       THEN /\ out' = [out EXCEPT ![Len(frames)] = @ \o
                         << "", "All dependencies satisfied!", "You can now use: computex --gui" >>]
            /\ retval' = 0
            /\ pc' = "done"
       ELSE /\ out' = [out EXCEPT ![Len(frames)] = @ \o << "", "Some dependencies are missing" >>]
            /\ pc' = "install"
            /\ UNCHANGED retval
    /\ UNCHANGED <<env, parser_out, onPath, argv, frames, executed, raised, run, first>>

\* main(), lines 209-223: the summary
Summary ==
    /\ pc = "summary"
    /\ IF frames[cur].all_passed
       THEN /\ out' = Say(<< "", "All dependencies satisfied!", "You can now use: computex --gui" >>)
            /\ retval' = 0
            /\ pc' = "done"
       ELSE /\ out' = Say(<< "", "Some dependencies are missing" >>)
            /\ pc' = IF ParseInstall(argv) THEN "install" ELSE "manual"
            /\ UNCHANGED retval
    /\ UNCHANGED <<env, parser_out, onPath, argv, frames, executed, raised, run, first>>

\* auto_install that ignores the exit status of the command
auto_install_ignores_status(p, rc) ==
    LET install_cmd == get_install_command(p)
        hdr == << "Attempting to install dependencies..." >>
    IN  IF install_cmd = None
        THEN [lines |-> hdr \o << "Unable to detect package manager. Please install manually." >>,
              ran |-> FALSE, result |-> FALSE]
        ELSE IF rc = "raise"
        THEN [lines |-> hdr \o << "Running: " \o install_cmd, "Installation failed" >>,
              ran |-> TRUE, result |-> FALSE]
        ELSE [lines |-> hdr \o << "Running: " \o install_cmd >>,
              ran |-> TRUE, result |-> TRUE]

\* auto_install, lines 139-157: its lines, whether it executed the command,
\* and its result
auto_install(p, rc) ==
    LET install_cmd == get_install_command(p)
        hdr == << "Attempting to install dependencies..." >>
    IN  IF install_cmd = None
        THEN [lines |-> hdr \o << "Unable to detect package manager. Please install manually." >>,
              ran |-> FALSE, result |-> FALSE]
        ELSE IF rc = "raise"
        THEN [lines |-> hdr \o << "Running: " \o install_cmd, "Installation failed" >>,
              ran |-> TRUE, result |-> FALSE]
        ELSE [lines |-> hdr \o << "Running: " \o install_cmd >>,
              ran |-> TRUE, result |-> (rc = "zero")]

\* main(), lines 224-233: call auto_install; on success either call main()
\* again or return 1 (line 229); on failure go on to the manual instructions
AutoInstall ==
    /\ pc = "install"
    /\ LET r == auto_install(onPath, installRC)
       IN  /\ executed' = IF r.ran THEN executed + 1 ELSE executed
           /\ onPath' = IF r.ran /\ installRC # "raise" THEN onPath \cup installAdds ELSE onPath
           /\ IF r.result
              THEN /\ out' = Say(r.lines \o << "Installation completed. Re-running checks..." >>)
                   /\ IF RerunAfterInstall(argv)
                      THEN pc' = "start" /\ UNCHANGED retval
                      ELSE pc' = "done" /\ retval' = 1
              ELSE /\ out' = Say(r.lines \o << "Auto-installation failed. Please install manually." >>)
                   /\ pc' = "manual"
                   /\ UNCHANGED retval
    /\ UNCHANGED <<env, parser_out, argv, frames, raised, run, first>>

\* main(), lines 235-263: the manual instructions
ManualLines(f, p) ==
    LET install_cmd == get_install_command(p)
    IN  << "To install missing dependencies:" >>
        \o (IF ~f.has_display
            THEN << "DISPLAY: Set up X11 or use --headless mode",
                    "    export DISPLAY=:0",
                    "    computex --headless" >>
            ELSE << >>)
        \o (IF ~f.has_xdotool \/ ~f.has_import
            THEN IF install_cmd # None
                 THEN << "Install commands:", "    " \o install_cmd >>
                 ELSE << "Manual installation:" >>
                      \o (IF ~f.has_xdotool
                          THEN << "    Install xdotool using your package manager" >> ELSE << >>)
                      \o (IF ~f.has_import
                          THEN << "    Install imagemagick using your package manager" >> ELSE << >>)
            ELSE << >>)
        \o << "Or run with auto-install: --install" >>

Manual ==
    /\ pc = "manual"
    /\ out' = Say(ManualLines(frames[cur], onPath))
    /\ retval' = 1
    /\ pc' = "done"
    /\ UNCHANGED <<env, parser_out, onPath, argv, frames, executed, raised, run, first>>

\* A second run of the program on the same environment with -v/--verbose
\* flipped: the host is put back to its state at program start and the
\* outcome of the first run is kept for the comparison.
Outcome == [frames |-> frames, executed |-> executed, retval |-> retval, raised |-> raised,
            parser_out |-> parser_out]

SecondRun ==
    /\ pc = "done"
    /\ run = 1
    /\ first' = << Outcome >>
    /\ run' = 2
    /\ argv' = IF "-v" \in argv THEN argv \ {"-v"} ELSE argv \cup {"-v"}
    /\ onPath' = path0
    /\ pc' = "start"
    /\ frames' = << >>
    /\ out' = << >>
    /\ executed' = 0
    /\ retval' = NotReturned
    /\ parser_out' = << >>
    /\ raised' = FALSE
    /\ UNCHANGED env

Next ==
    \/ Start
    \/ CheckPlatform
    \/ CheckDisplay
    \/ CheckXdotool
    \/ VersionXdotool
    \/ CheckImport
    \/ VersionImport
    \/ Summary
    \/ AutoInstall
    \/ Manual

Spec == Init /\ [][Next]_vars

NextPair == Next \/ SecondRun

SpecPair == Init /\ [][NextPair]_vars

\* ------------------------------------------------- vocabulary of the claims
Passes == 1..Len(frames)
Lines(i) == {out[i][k] : k \in 1..Len(out[i])}
CheckNames == <<"Platform", "DISPLAY variable", "xdotool", "import">>
VerboseDetail ==
    {"Running on " \o s \o " (Linux required)" : s \in Systems}
    \cup {"DISPLAY=" \o d : d \in DisplayValues}
    \cup {"Found at /usr/bin/" \o c : c \in Tools}
ReportLines(name) ==
    {"PASS " \o name, "FAIL " \o name} \cup {"PASS " \o name \o ": " \o m : m \in VerboseDetail}
AllReportLines == UNION {ReportLines(CheckNames[k]) : k \in 1..4}
NameOfLine == [line \in AllReportLines |->
                 CheckNames[CHOOSE k \in 1..4 : line \in ReportLines(CheckNames[k])]]
IsReport(line) == line \in AllReportLines
\* the checks pass i reported, in the order it reported them
Reported(i) ==
    LET r == SelectSeq(out[i], IsReport)
    IN  [k \in 1..Len(r) |-> NameOfLine[r[k]]]
Bound(i, name) == name \in DOMAIN frames[i]
Results(i) == <<frames[i].has_display, frames[i].has_xdotool, frames[i].has_import>>
Complete(i) == Bound(i, "has_display") /\ Bound(i, "has_xdotool") /\ Bound(i, "has_import")
FailedCount(i) == Cardinality({k \in 1..3 : ~Results(i)[k]})
\* the search path as pass i saw it: a nested pass follows a completed install
PathAt(i) == IF i = 1 THEN path0 ELSE path0 \cup installAdds
InstallFlag == "--install" \in argv \/ "--inst" \in argv
Attempted(i) == "Attempting to install dependencies..." \in Lines(i)
RunningLines == {"Running: " \o get_install_command({m}) : m \in PackageManagers}
RanCommand(i) == Lines(i) \cap RunningLines # {}
Succeeded(i) == "Installation completed. Re-running checks..." \in Lines(i)
FailedInstall(i) == "Auto-installation failed. Please install manually." \in Lines(i)
ManualPrinted(i) == "To install missing dependencies:" \in Lines(i)
InstallerSilent(i) ==
    /\ ~Attempted(i) /\ ~RanCommand(i) /\ ~Succeeded(i) /\ ~FailedInstall(i)
    /\ "Unable to detect package manager. Please install manually." \notin Lines(i)
Finished == pc = "done"

\* ---------------------------------------------------------------- claims
\* What a run on a platform other than Linux must look like: exit code 2,
\* and neither the display check, nor a tool check, nor the installer
\* performed or reported.
NonLinuxOutcome ==
    /\ executed = 0
    /\ \A i \in Passes :
          /\ ~Bound(i, "has_display") /\ ~Bound(i, "has_xdotool") /\ ~Bound(i, "has_import")
          /\ \A k \in 1..Len(Reported(i)) : Reported(i)[k] = "Platform"
          /\ InstallerSilent(i)
    /\ Len(frames) <= 1
    /\ pc \in {"start", "platform", "done"}
    /\ Finished => retval = 2 /\ ~raised

\* C1 as claimed: when the platform is not Linux, whatever the flags, the exit
\* code is exactly 2 and neither the display check, nor a tool check, nor the
\* installer is performed or reported.
C1_NonLinuxExits2 ==
    system # "Linux" => NonLinuxOutcome

\* C1 amended: when the platform is not Linux and the arguments do not ask
\* for the usage text (-h/--help, on which parse_args exits with status 0
\* before the platform check), the exit code is exactly 2 and neither the
\* display check, nor a tool check, nor the installer is performed or reported.
C1_NonLinuxExits2UnlessHelp ==
    (system # "Linux" /\ ParseExit(argv) # 0) => NonLinuxOutcome

C1_Witness ==
    /\ Finished /\ system # "Linux" /\ retval = 2 /\ Len(frames) = 1
    /\ InstallFlag /\ "-v" \in argv /\ display = "" /\ onPath = {"apt-get"}
    /\ Reported(1) = <<"Platform">>

\* C2 as claimed: a run in which the platform is Linux, DISPLAY is non-empty
\* and both tools are found ends with exit code exactly 0.
C2_AllTrueExits0 ==
    (Finished /\ system = "Linux" /\ display # "" /\ Tools \subseteq path0) => retval = 0

\* C2 amended: a run in which the platform is Linux, DISPLAY is non-empty and
\* both tools are found, and whose arguments parse_args does not reject, ends
\* with exit code exactly 0, whatever -v and the install flag; so does every
\* pass of main() whose three non-platform checks passed.
C2_AllTrueExits0IfParsed ==
    /\ \A i \in Passes :
          (Complete(i) /\ FailedCount(i) = 0 /\ Finished) =>
              retval = 0 /\ ~raised /\ i = Len(frames)
    /\ (/\ Finished /\ system = "Linux" /\ display # "" /\ Tools \subseteq path0
        /\ ParseExit(argv) # 2) =>
          /\ retval = 0 /\ ~raised /\ executed = 0
          /\ ParseExit(argv) = NotReturned => Len(frames) = 1

C2_Witness ==
    /\ Finished /\ retval = 0 /\ Len(frames) = 1
    /\ system = "Linux" /\ display # "" /\ Tools \subseteq path0
    /\ InstallFlag /\ "-v" \in argv

\* C3 as claimed: a pass of main() on Linux in which exactly one of the
\* three checks fails ends with exit code exactly 1.
C3_OneFalseExits1 ==
    Finished => \A i \in Passes : (Complete(i) /\ FailedCount(i) = 1) => retval = 1

\* C4: when a non-platform check failed, the install flag was given and
\* auto_install() returned true, the whole check sequence is run again
\* exactly once.
C4_RerunOnceAfterInstall ==
    (Finished /\ Len(frames) >= 1 /\ Succeeded(1)) =>
        /\ Len(frames) = 2
        /\ ~raised
        /\ system = "Linux" => Reported(2) = CheckNames

\* C5: without any known package manager get_install_command() returns
\* nothing, and a run with the install flag whose checks were made and in
\* which a non-platform check failed executes no install command, has auto_install() report failure, prints the
\* manual instructions and exits with code 1.
C5_NoManagerFallsThrough ==
    (path0 \cap PackageManagers = {}) =>
        /\ get_install_command(onPath) = None
        /\ executed = 0
        /\ (/\ Finished /\ system = "Linux" /\ InstallFlag
            /\ Len(frames) >= 1
            /\ (display = "" \/ ~(Tools \subseteq path0)))
           => /\ Attempted(1) /\ ~RanCommand(1)
              /\ "Unable to detect package manager. Please install manually." \in Lines(1)
              /\ FailedInstall(1) /\ ~Succeeded(1)
              /\ ManualPrinted(1)
              /\ retval = 1 /\ ~raised /\ Len(frames) = 1

C5_Witness ==
    /\ Finished /\ system = "Linux" /\ "--inst" \in argv /\ "--install" \notin argv
    /\ path0 \cap PackageManagers = {} /\ path0 = {"import"} /\ display = ""
    /\ retval = 1 /\ ManualPrinted(1) /\ installRC = "zero"

\* C6: two runs on the same environment that differ only in -v/--verbose
\* agree on the result of every check in every pass, on whether the installer
\* is invoked and how often the command is executed, and on the exit code.
C6_VerboseSameOutcome ==
    (run = 2 /\ Finished) => first = << Outcome >>

C6_Witness ==
    /\ run = 2 /\ Finished /\ "-v" \in argv
    /\ Len(frames) = 2 /\ executed = 1 /\ retval = 0
    /\ "       Version: xdotool" \in Lines(2)
    /\ "       Version: import" \notin Lines(2)
    /\ ~frames[1].has_import

\* C7: every run ends in exit code 0, 1 or 2, the check sequence is executed
\* at most twice and the install command at most once.
C7_BoundedRerun ==
    /\ Len(frames) <= 2
    /\ executed <= 1
    /\ Finished => retval \in {0, 1, 2} /\ ~raised

\* C8: the install command is executed only with the install flag, on Linux,
\* after the display, xdotool and import checks of the pass have all been
\* completed and at least one of them failed; without the flag, off Linux, or
\* when all checks pass, it is never executed.
C8_InstallGated ==
    /\ [](executed > 0 => InstallFlag /\ system = "Linux"
                          /\ (display = "" \/ ~(Tools \subseteq path0)))
    /\ [][executed' > executed =>
            /\ InstallFlag /\ system = "Linux"
            /\ Complete(Len(frames)) /\ FailedCount(Len(frames)) >= 1
            /\ Reported(Len(frames)) = CheckNames
            /\ (display = "" \/ ~(Tools \subseteq PathAt(Len(frames))))
            /\ frames' = frames]_vars

C8_Witness ==
    /\ executed = 1 /\ Finished /\ "--install" \in argv
    /\ display = "" /\ Tools \subseteq path0 /\ installRC = "nonzero"

\* C9: auto_install() reports success exactly when a command was chosen, it
\* was executed and it exited with status zero; when the command exits
\* non-zero or raises, nothing propagates, the manual instructions are printed
\* (DISPLAY section iff the display check failed, install section iff xdotool
\* or import is missing) and the exit code is 1.
DisplaySection(i) == "DISPLAY: Set up X11 or use --headless mode" \in Lines(i)
InstallSection(i) == "Install commands:" \in Lines(i) \/ "Manual installation:" \in Lines(i)

C9_InstallResult ==
    \A i \in Passes :
        Attempted(i) =>
            /\ Succeeded(i) <=> (/\ path0 \cap PackageManagers # {}
                                 /\ RanCommand(i)
                                 /\ installRC = "zero")
            /\ Succeeded(i) # FailedInstall(i)
            /\ RanCommand(i) <=> path0 \cap PackageManagers # {}
            /\ (installRC # "zero" /\ (i < Len(frames) \/ Finished)) =>
                  /\ FailedInstall(i) /\ i = Len(frames) /\ ~raised
                  /\ retval = 1
                  /\ ManualPrinted(i)
                  /\ DisplaySection(i) <=> display = ""
                  /\ InstallSection(i) <=> ~(Tools \subseteq PathAt(i))

C9_Witness ==
    /\ Finished /\ Len(frames) = 1 /\ Attempted(1) /\ RanCommand(1) /\ FailedInstall(1)
    /\ installRC = "nonzero" /\ "--inst" \in argv
    /\ display = "" /\ path0 = {"import", "yum"} /\ onPath = {"import", "yum", "xdotool"}
    /\ retval = 1 /\ DisplaySection(1) /\ InstallSection(1)

\* C10: a pass on Linux runs platform, display, xdotool, import in this order,
\* each once, none gating a later one, and at the summary the aggregate flag
\* is true exactly when the three non-platform checks passed.
IsPrefix(a, b) == Len(a) <= Len(b) /\ \A k \in 1..Len(a) : a[k] = b[k]
PastChecks(i) == i < Len(frames)
                 \/ pc \in {"import_version", "summary", "install", "manual", "start", "done"}

C10_FixedOrderNoGate ==
    \A i \in Passes :
        /\ IsPrefix(Reported(i), CheckNames)
        /\ (system = "Linux" /\ PastChecks(i)) =>
              /\ Reported(i) = CheckNames
              /\ Complete(i)
              /\ Results(i) = <<display # "", "xdotool" \in PathAt(i), "import" \in PathAt(i)>>
        /\ (system = "Linux" /\ i = Len(frames) /\ pc = "summary") =>
              (frames[i].all_passed <=>
                  (display # "" /\ "xdotool" \in PathAt(i) /\ "import" \in PathAt(i)))

C10_Witness ==
    /\ pc = "summary" /\ system = "Linux" /\ display = "" /\ onPath \cap Tools = {}
    /\ Reported(1) = CheckNames /\ ~frames[1].all_passed /\ Len(frames) = 1
====
